---- MODULE Spec2Model ----
(***************************************************************************)
(* The survey generator of src/app.py as a state machine: one Streamlit    *)
(* session (form widgets, st.session_state) and the generation run that    *)
(* the "Generate" button starts.  The run is a single thread of control    *)
(* that blocks on each call to the text-generation collaborator; pc names  *)
(* the call it is waiting on.                                              *)
(***************************************************************************)
EXTENDS Integers, Sequences, FiniteSets, TLC

\* ---------------------------------------------------------------- bounds
\* survey_loi number_input: min_value, max_value and default value.
MinLoi == 5
MaxLoi == 60
DefaultLoi == 20
\* Spec explores LOI values MinLoi..MaxRunLoi (and the default); SpecFresh all.
MaxRunLoi == 5

ValidLoi == MinLoi..MaxLoi
RunLoi == (MinLoi..MaxRunLoi) \cup {DefaultLoi}

\* Texts typed into the form, as sequences of characters.
NoText == << >>
Objectives == {NoText, <<"c", "a", "r", "s">>}
Audiences == {NoText, <<"m", "e", "n">>}
ApiKeys == {NoText, <<"s", "k">>}
\* market_country text_input: its default value, and the values typed.
DefaultMarket == <<"I", "n", "d", "i", "a">>
Markets == {DefaultMarket, <<"U", "S", "A">>,
            <<"S", "o", "u", "t", "h", " ", "I", "n", "d", "i", "a">>}
\* The objectives and audiences the classifier is explored with:
\*   "customer satisfaction"
\*   "travel"
\*   "SUV owners"
\*   "skincare"
\*   "tech food"
\*   "night cream"
\*   "car smartphone"
\*   "healthcare app"
\*   "fashion"
ClassifierObjectives ==
    {NoText,
     <<"c", "u", "s", "t", "o", "m", "e", "r", " ", "s", "a", "t", "i", "s", "f", "a", "c", "t", "i", "o", "n">>,
     <<"t", "r", "a", "v", "e", "l">>,
     <<"S", "U", "V", " ", "o", "w", "n", "e", "r", "s">>,
     <<"s", "k", "i", "n", "c", "a", "r", "e">>,
     <<"t", "e", "c", "h", " ", "f", "o", "o", "d">>,
     <<"n", "i", "g", "h", "t", " ", "c", "r", "e", "a", "m">>,
     <<"c", "a", "r", " ", "s", "m", "a", "r", "t", "p", "h", "o", "n", "e">>,
     <<"h", "e", "a", "l", "t", "h", "c", "a", "r", "e", " ", "a", "p", "p">>,
     <<"f", "a", "s", "h", "i", "o", "n">>}
\*   "men"
\*   "tea drinkers"
\*   "Students"
ClassifierAudiences ==
    {NoText,
     <<"m", "e", "n">>,
     <<"t", "e", "a", " ", "d", "r", "i", "n", "k", "e", "r", "s">>,
     <<"S", "t", "u", "d", "e", "n", "t", "s">>}

\* Shapes of a reply of the text-generation collaborator to a request for
\* the questions from..to: all of them, or all but the last (a truncated
\* reply).
Shapes == {"full", "short"}

VARIABLES
    api_key, survey_objective, target_audience, survey_loi,   \* form widgets
    market_country,                                           \* form widget
    q_counts,                                                 \* displayed distribution
    questionnaire_generated, questionnaire_text, survey_data_stored, \* st.session_state
    generated_from,          \* history: the survey data of the run that stored the text
    pc, outcome,                                              \* position of the script
    survey_data, question_counts, questionnaire, actual_count, final_count, \* run locals
    detected_category, confidence, brand_list,                \* run locals
    brand_response,                          \* what the brand lookup came back with
    calls, prompts, messages               \* collaborator requests, their prompts, UI reports

formVars == <<api_key, survey_objective, target_audience, survey_loi, market_country>>
sessionVars == <<questionnaire_generated, questionnaire_text, survey_data_stored,
                 generated_from>>
runVars == <<survey_data, question_counts, questionnaire, actual_count, final_count>>
categoryVars == <<detected_category, confidence>>
brandVars == <<brand_list, brand_response>>
vars == <<formVars, q_counts, sessionVars, pc, outcome, runVars, categoryVars, brandVars,
          calls, prompts, messages>>

\* ------------------------------------------------------------------ text
\* A text is the sequence of its lines (text.split('\n')); a line is a class
\* of lines with the question number it carries:
\*   blank    ""                         qdot    "Q7. What is your age?"
\*   qcolon   "Q7: What is your age?"    meta    "Purpose: Validate age range"
\*   option   "- 18-24"                  prose   "Here are the questions"
\*   section  "SECTION 1 SCREENER"       upper   a section line upper-cased
\*   rule80   '=' * 80                   rule50  '-' * 50
\*   arrow    "    -> " + a meta line    indented  "    " + an option line
\*   termination  "Termination Logic: Terminate if outside target age range"
\*   fraud        "Fraud Detection: Yes" (arrow, once formatted)
Line(kind, num) == [kind |-> kind, num |-> num]
BlankLine == Line("blank", 0)
EmptyText == <<BlankLine>>

StartsWithQ(l) == l.kind \in {"qdot", "qcolon"}
HasDot(l) == l.kind \in {"qdot"}
HasDigit(l) == l.kind \in {"qdot", "qcolon", "option", "section", "upper", "indented"}
HasColon(l) == l.kind \in {"qcolon", "meta", "arrow", "termination", "fraud"}
IsBlank(l) == l.kind = "blank"
IsSectionHeader(l) == l.kind \in {"section", "upper", "rule80"}
HasLogicKeyword(l) == l.kind \in {"meta", "arrow", "fraud"}
StartsWithDash(l) == l.kind \in {"option", "rule50"}

\* a + b for two strings, on their lines: the last line of a and the first
\* line of b become one line.  Replies neither end nor begin in mid-line, so
\* one of the two is always blank.
JoinLines(a, b) == IF IsBlank(a) THEN b ELSE a
Concat(a, b) ==
    SubSeq(a, 1, Len(a) - 1) \o <<JoinLines(a[Len(a)], b[1])>> \o Tail(b)

\* "\n\n"
TwoNewlines == <<BlankLine, BlankLine, BlankLine>>

\* The question-marker filter of the count validation.
IsQuestionLine(l) == StartsWithQ(l) /\ HasDot(l) /\ HasDigit(l)
CountQuestionLines(text) == Cardinality({i \in DOMAIN text : IsQuestionLine(text[i])})

\* What format_questionnaire_with_logic appends for one line, as lines of
\* the joined result.
FormatLine(l) ==
    IF ~IsBlank(l)
    THEN IF IsSectionHeader(l)
         THEN <<BlankLine, Line("rule80", 0), Line("upper", l.num), Line("rule80", 0), BlankLine>>
         ELSE IF StartsWithQ(l) /\ HasColon(l)
         THEN <<BlankLine, Line("rule50", 0), l>>
         ELSE IF HasLogicKeyword(l)
         THEN <<Line("arrow", l.num)>>
         ELSE IF StartsWithDash(l)
         THEN <<Line("indented", l.num)>>
         ELSE <<l>>
    ELSE <<BlankLine>>

\* The formatted lines of text[lo..hi], in order (the loop over the lines,
\* evaluated by halves).
RECURSIVE FormatLines(_, _, _)
FormatLines(text, lo, hi) ==
    IF lo > hi THEN << >>
    ELSE IF lo = hi THEN FormatLine(text[lo])
    ELSE LET mid == (lo + hi) \div 2
         IN  FormatLines(text, lo, mid) \o FormatLines(text, mid + 1, hi)

format_questionnaire_with_logic(questionnaire_text_in) ==
    FormatLines(questionnaire_text_in, 1, Len(questionnaire_text_in))

\* ---------------------------------------------------------------- budget
Max(a, b) == IF a >= b THEN a ELSE b

\* The least number of screener questions, and of demographics questions.
SectionFloor == 8

\* round(n / d) as Python rounds a quotient of integers that floats hold
\* exactly: to the nearest integer, a tie to the even one.
python_round(n, d) ==
    LET q == n \div d
        twice == 2 * (n % d)
    IN  IF twice < d THEN q
        ELSE IF twice > d THEN q + 1
        ELSE IF q % 2 = 0 THEN q ELSE q + 1

\* calculate_question_count with round() for int().
calculate_question_count_rounded(loi_minutes) ==
    LET core_questions == python_round(loi_minutes * 5, 2)
        screener_questions == Max(SectionFloor, python_round(loi_minutes * 4, 10))
        demographics_questions == Max(SectionFloor, python_round(loi_minutes * 4, 10))
    IN  [screener |-> screener_questions,
         core_research |-> core_questions,
         demographics |-> demographics_questions,
         total |-> core_questions + screener_questions + demographics_questions]

\* calculate_question_count with a core of 1.5 x LOI, a screener of 0.3 x LOI
\* and demographics of 0.25 x LOI, each at least 5.
calculate_question_count_shortPolicy(loi_minutes) ==
    LET core_questions == (loi_minutes * 3) \div 2
        screener_questions == Max(5, (loi_minutes * 3) \div 10)
        demographics_questions == Max(5, loi_minutes \div 4)
    IN  [screener |-> screener_questions,
         core_research |-> core_questions,
         demographics |-> demographics_questions,
         total |-> core_questions + screener_questions + demographics_questions]

\* calculate_question_count with the demographics left out of the total.
calculate_question_count_noDemographics(loi_minutes) ==
    LET core_questions == (loi_minutes * 5) \div 2
        screener_questions == Max(SectionFloor, (loi_minutes * 4) \div 10)
        demographics_questions == Max(SectionFloor, (loi_minutes * 4) \div 10)
    IN  [screener |-> screener_questions,
         core_research |-> core_questions,
         demographics |-> demographics_questions,
         total |-> core_questions + screener_questions]

\* calculate_question_count without the max(8, ...) of the screener.
calculate_question_count_noFloor(loi_minutes) ==
    LET core_questions == (loi_minutes * 5) \div 2
        screener_questions == (loi_minutes * 4) \div 10
        demographics_questions == Max(SectionFloor, (loi_minutes * 4) \div 10)
    IN  [screener |-> screener_questions,
         core_research |-> core_questions,
         demographics |-> demographics_questions,
         total |-> core_questions + screener_questions + demographics_questions]

\* calculate_question_count with the 1.5 x LOI core of an earlier revision
\* for surveys longer than half an hour.
calculate_question_count_longSurvey(loi_minutes) ==
    LET core_questions == IF loi_minutes > 30 THEN (loi_minutes * 3) \div 2
                          ELSE (loi_minutes * 5) \div 2
        screener_questions == Max(SectionFloor, (loi_minutes * 4) \div 10)
        demographics_questions == Max(SectionFloor, (loi_minutes * 4) \div 10)
    IN  [screener |-> screener_questions,
         core_research |-> core_questions,
         demographics |-> demographics_questions,
         total |-> core_questions + screener_questions + demographics_questions]

\* int(loi * 2.5) and int(loi * 0.4): for the integers of the number_input
\* the float products truncate to (5 * loi) div 2 and (4 * loi) div 10.
calculate_question_count(loi_minutes) ==
    LET core_questions == (loi_minutes * 5) \div 2
        screener_questions == Max(SectionFloor, (loi_minutes * 4) \div 10)
        demographics_questions == Max(SectionFloor, (loi_minutes * 4) \div 10)
        total_questions == core_questions + screener_questions + demographics_questions
    IN  [screener |-> screener_questions,
         core_research |-> core_questions,
         demographics |-> demographics_questions,
         total |-> total_questions]

NoCounts == [screener |-> 0, core_research |-> 0, demographics |-> 0, total |-> 0]

\* ----------------------------------------------------------- batch ranges
\* core_part1_count rounded up instead of down.
core_part1_count_roundedUp(qc) == (qc.core_research + 1) \div 2
core_part1_count(qc) == qc.core_research \div 2
start_q(qc) == qc.screener + 1
\* end_q without the - 1.
end_q_offByOne(qc) == start_q(qc) + core_part1_count(qc)
end_q(qc) == start_q(qc) + core_part1_count(qc) - 1
core_part2_count(qc) == qc.core_research - core_part1_count(qc)
start_q2(qc) == end_q(qc) + 1
end_q2(qc) == start_q2(qc) + core_part2_count(qc) - 1
demo_start(qc) == end_q2(qc) + 1
demo_end(qc) == demo_start(qc) + qc.demographics - 1

\* ------------------------------------------------------------ characters
\* A string is the sequence of its characters.  Bullet stands for the
\* character U+2022.
Bullet == "bullet"
Space == " "
UpperCase == <<"A", "B", "C", "D", "E", "F", "G", "H", "I", "J", "K", "L", "M",
               "N", "O", "P", "Q", "R", "S", "T", "U", "V", "W", "X", "Y", "Z">>
LowerCase == <<"a", "b", "c", "d", "e", "f", "g", "h", "i", "j", "k", "l", "m",
               "n", "o", "p", "q", "r", "s", "t", "u", "v", "w", "x", "y", "z">>

\* str.lower()
lower(s) ==
    [i \in DOMAIN s |->
        IF \E k \in DOMAIN UpperCase : UpperCase[k] = s[i]
        THEN LowerCase[CHOOSE k \in DOMAIN UpperCase : UpperCase[k] = s[i]]
        ELSE s[i]]

\* keyword in text
Contains(text, keyword) ==
    \E i \in 1..(Len(text) - Len(keyword) + 1) :
        SubSeq(text, i, i + Len(keyword) - 1) = keyword

\* str.strip()
strip(s) ==
    LET inked == {i \in DOMAIN s : s[i] # Space}
    IN  IF inked = {} THEN << >>
        ELSE SubSeq(s, CHOOSE i \in inked : \A j \in inked : i <= j,
                       CHOOSE i \in inked : \A j \in inked : j <= i)

\* ------------------------------------------------------------ classifier
\* category_keywords, in the order of the dict.
category_keywords ==
    <<[category |-> "cosmetics",
       keywords |-> <<<<"c", "o", "s", "m", "e", "t", "i", "c", "s">>,
                     <<"b", "e", "a", "u", "t", "y">>,
                     <<"c", "r", "e", "a", "m">>,
                     <<"s", "k", "i", "n", "c", "a", "r", "e">>,
                     <<"m", "a", "k", "e", "u", "p">>,
                     <<"l", "i", "p", "s", "t", "i", "c", "k">>,
                     <<"f", "o", "u", "n", "d", "a", "t", "i", "o", "n">>,
                     <<"n", "i", "g", "h", "t", " ", "c", "r", "e", "a", "m">>,
                     <<"f", "a", "c", "e", " ", "c", "r", "e", "a", "m">>,
                     <<"m", "o", "i", "s", "t", "u", "r", "i", "z", "e", "r">>,
                     <<"s", "e", "r", "u", "m">>,
                     <<"l", "o", "t", "i", "o", "n">>>>],
      [category |-> "automotive",
       keywords |-> <<<<"a", "u", "t", "o", "m", "o", "t", "i", "v", "e">>,
                     <<"c", "a", "r">>,
                     <<"v", "e", "h", "i", "c", "l", "e">>,
                     <<"e", "v">>,
                     <<"e", "l", "e", "c", "t", "r", "i", "c", " ", "v", "e", "h", "i", "c", "l", "e">>,
                     <<"a", "u", "t", "o">>,
                     <<"a", "u", "t", "o", "m", "o", "b", "i", "l", "e">>,
                     <<"s", "e", "d", "a", "n">>,
                     <<"s", "u", "v">>>>],
      [category |-> "food_beverage",
       keywords |-> <<<<"f", "o", "o", "d">>,
                     <<"r", "e", "s", "t", "a", "u", "r", "a", "n", "t">>,
                     <<"d", "i", "n", "i", "n", "g">>,
                     <<"b", "e", "v", "e", "r", "a", "g", "e">>,
                     <<"d", "r", "i", "n", "k">>,
                     <<"c", "o", "f", "f", "e", "e">>,
                     <<"t", "e", "a">>,
                     <<"s", "n", "a", "c", "k">>,
                     <<"m", "e", "a", "l">>>>],
      [category |-> "technology",
       keywords |-> <<<<"p", "h", "o", "n", "e">>,
                     <<"s", "m", "a", "r", "t", "p", "h", "o", "n", "e">>,
                     <<"m", "o", "b", "i", "l", "e">>,
                     <<"t", "e", "c", "h", "n", "o", "l", "o", "g", "y">>,
                     <<"l", "a", "p", "t", "o", "p">>,
                     <<"c", "o", "m", "p", "u", "t", "e", "r">>,
                     <<"s", "o", "f", "t", "w", "a", "r", "e">>,
                     <<"a", "p", "p">>,
                     <<"t", "e", "c", "h">>>>],
      [category |-> "fashion",
       keywords |-> <<<<"f", "a", "s", "h", "i", "o", "n">>,
                     <<"c", "l", "o", "t", "h", "i", "n", "g">>,
                     <<"a", "p", "p", "a", "r", "e", "l">>,
                     <<"s", "h", "o", "e", "s">>,
                     <<"d", "r", "e", "s", "s">>,
                     <<"s", "h", "i", "r", "t">>,
                     <<"a", "c", "c", "e", "s", "s", "o", "r", "i", "e", "s">>>>],
      [category |-> "healthcare",
       keywords |-> <<<<"h", "e", "a", "l", "t", "h", "c", "a", "r", "e">>,
                     <<"m", "e", "d", "i", "c", "a", "l">>,
                     <<"h", "e", "a", "l", "t", "h">>,
                     <<"m", "e", "d", "i", "c", "i", "n", "e">>,
                     <<"t", "r", "e", "a", "t", "m", "e", "n", "t">>,
                     <<"h", "o", "s", "p", "i", "t", "a", "l">>,
                     <<"d", "o", "c", "t", "o", "r">>>>],
      [category |-> "finance",
       keywords |-> <<<<"f", "i", "n", "a", "n", "c", "e">>,
                     <<"b", "a", "n", "k", "i", "n", "g">>,
                     <<"i", "n", "v", "e", "s", "t", "m", "e", "n", "t">>,
                     <<"i", "n", "s", "u", "r", "a", "n", "c", "e">>,
                     <<"l", "o", "a", "n">>,
                     <<"c", "r", "e", "d", "i", "t">>,
                     <<"f", "i", "n", "a", "n", "c", "i", "a", "l">>>>],
      [category |-> "travel",
       keywords |-> <<<<"t", "r", "a", "v", "e", "l">>,
                     <<"h", "o", "t", "e", "l">>,
                     <<"v", "a", "c", "a", "t", "i", "o", "n">>,
                     <<"t", "o", "u", "r", "i", "s", "m">>,
                     <<"a", "i", "r", "l", "i", "n", "e">>,
                     <<"b", "o", "o", "k", "i", "n", "g">>>>],
      [category |-> "education",
       keywords |-> <<<<"e", "d", "u", "c", "a", "t", "i", "o", "n">>,
                     <<"l", "e", "a", "r", "n", "i", "n", "g">>,
                     <<"c", "o", "u", "r", "s", "e">>,
                     <<"s", "c", "h", "o", "o", "l">>,
                     <<"u", "n", "i", "v", "e", "r", "s", "i", "t", "y">>,
                     <<"t", "r", "a", "i", "n", "i", "n", "g">>>>]>>

\* sum(1 for keyword in keywords if keyword in combined_text)
score(keywords, combined_text) ==
    Cardinality({k \in DOMAIN keywords : Contains(combined_text, keywords[k])})

\* max() that keeps the last of several highest scores.
RECURSIVE max_score_lastWins(_, _, _)
max_score_lastWins(combined_text, i, best) ==
    IF i > Len(category_keywords) THEN best
    ELSE LET s == score(category_keywords[i].keywords, combined_text)
         IN  max_score_lastWins(combined_text, i + 1,
                 IF s > 0 /\ (best = 0 \/ s >= score(category_keywords[best].keywords,
                                                     combined_text))
                 THEN i ELSE best)

\* max(category_scores, key=category_scores.get), as the loop max() runs
\* over the categories i.. that scored, in the order of category_keywords:
\* `best` (0 for none yet) is replaced by a strictly higher score only.
RECURSIVE max_score(_, _, _)
max_score(combined_text, i, best) ==
    IF i > Len(category_keywords) THEN best
    ELSE LET s == score(category_keywords[i].keywords, combined_text)
         IN  max_score(combined_text, i + 1,
                 IF s > 0 /\ (best = 0 \/ s > score(category_keywords[best].keywords,
                                                    combined_text))
                 THEN i ELSE best)

\* detect_survey_category without the .lower() of its inputs.
detect_survey_category_caseSensitive(objective, audience) ==
    LET combined_text == objective \o <<Space>> \o audience
        best == max_score(combined_text, 1, 0)
    IN  IF best # 0
        THEN [category |-> category_keywords[best].category,
              confidence |-> score(category_keywords[best].keywords, combined_text)]
        ELSE [category |-> "general", confidence |-> 0]

detect_survey_category(objective, audience) ==
    LET combined_text == lower(objective) \o <<Space>> \o lower(audience)
        best == max_score(combined_text, 1, 0)
    IN  IF best # 0
        THEN [category |-> category_keywords[best].category,
              confidence |-> score(category_keywords[best].keywords, combined_text)]
        ELSE [category |-> "general", confidence |-> 0]

\* ---------------------------------------------------------------- brands
fallback_brands ==
    [cosmetics |->
        [India |-> <<<<"L", "a", "k", "m", "e">>,
                    <<"M", "a", "y", "b", "e", "l", "l", "i", "n", "e">>,
                    <<"L", "'", "O", "r", "e", "a", "l">>,
                    <<"M", "A", "C">>,
                    <<"R", "e", "v", "l", "o", "n">>,
                    <<"C", "l", "i", "n", "i", "q", "u", "e">>,
                    <<"E", "s", "t", "e", "e", " ", "L", "a", "u", "d", "e", "r">>,
                    <<"N", "y", "k", "a", "a">>,
                    <<"L", "o", "t", "u", "s", " ", "H", "e", "r", "b", "a", "l", "s">>,
                    <<"F", "o", "r", "e", "s", "t", " ", "E", "s", "s", "e", "n", "t", "i", "a", "l", "s">>,
                    <<"C", "o", "l", "o", "r", "b", "a", "r">>,
                    <<"F", "a", "c", "e", "s", " ", "C", "a", "n", "a", "d", "a">>,
                    <<"B", "i", "o", "t", "i", "q", "u", "e">>,
                    <<"H", "i", "m", "a", "l", "a", "y", "a", " ", "H", "e", "r", "b", "a", "l", "s">>,
                    <<"V", "L", "C", "C">>>>,
         global |-> <<<<"L", "'", "O", "r", "e", "a", "l">>,
                     <<"M", "a", "y", "b", "e", "l", "l", "i", "n", "e">>,
                     <<"M", "A", "C">>,
                     <<"R", "e", "v", "l", "o", "n">>,
                     <<"C", "l", "i", "n", "i", "q", "u", "e">>,
                     <<"E", "s", "t", "e", "e", " ", "L", "a", "u", "d", "e", "r">>,
                     <<"C", "h", "a", "n", "e", "l">>,
                     <<"D", "i", "o", "r">>,
                     <<"U", "r", "b", "a", "n", " ", "D", "e", "c", "a", "y">>,
                     <<"N", "A", "R", "S">>>>],
     automotive |->
        [India |-> <<<<"M", "a", "r", "u", "t", "i", " ", "S", "u", "z", "u", "k", "i">>,
                    <<"H", "y", "u", "n", "d", "a", "i">>,
                    <<"T", "a", "t", "a", " ", "M", "o", "t", "o", "r", "s">>,
                    <<"M", "a", "h", "i", "n", "d", "r", "a">>,
                    <<"T", "o", "y", "o", "t", "a">>,
                    <<"H", "o", "n", "d", "a">>,
                    <<"B", "M", "W">>,
                    <<"M", "e", "r", "c", "e", "d", "e", "s", "-", "B", "e", "n", "z">>,
                    <<"A", "u", "d", "i">>,
                    <<"F", "o", "r", "d">>>>,
         global |-> <<<<"T", "o", "y", "o", "t", "a">>,
                     <<"H", "o", "n", "d", "a">>,
                     <<"F", "o", "r", "d">>,
                     <<"B", "M", "W">>,
                     <<"M", "e", "r", "c", "e", "d", "e", "s", "-", "B", "e", "n", "z">>,
                     <<"A", "u", "d", "i">>,
                     <<"H", "y", "u", "n", "d", "a", "i">>,
                     <<"N", "i", "s", "s", "a", "n">>,
                     <<"V", "o", "l", "k", "s", "w", "a", "g", "e", "n">>,
                     <<"T", "e", "s", "l", "a">>>>],
     technology |->
        [India |-> <<<<"S", "a", "m", "s", "u", "n", "g">>,
                    <<"A", "p", "p", "l", "e">>,
                    <<"O", "n", "e", "P", "l", "u", "s">>,
                    <<"X", "i", "a", "o", "m", "i">>,
                    <<"O", "p", "p", "o">>,
                    <<"V", "i", "v", "o">>,
                    <<"R", "e", "a", "l", "m", "e">>,
                    <<"N", "o", "k", "i", "a">>,
                    <<"M", "o", "t", "o", "r", "o", "l", "a">>,
                    <<"G", "o", "o", "g", "l", "e">>>>,
         global |-> <<<<"A", "p", "p", "l", "e">>,
                     <<"S", "a", "m", "s", "u", "n", "g">>,
                     <<"G", "o", "o", "g", "l", "e">>,
                     <<"M", "i", "c", "r", "o", "s", "o", "f", "t">>,
                     <<"S", "o", "n", "y">>,
                     <<"L", "G">>,
                     <<"H", "u", "a", "w", "e", "i">>,
                     <<"O", "n", "e", "P", "l", "u", "s">>,
                     <<"N", "o", "k", "i", "a">>,
                     <<"M", "o", "t", "o", "r", "o", "l", "a">>>>],
     food_beverage |->
        [India |-> <<<<"A", "m", "u", "l">>,
                    <<"B", "r", "i", "t", "a", "n", "n", "i", "a">>,
                    <<"P", "a", "r", "l", "e">>,
                    <<"I", "T", "C">>,
                    <<"N", "e", "s", "t", "l", "e">>,
                    <<"C", "o", "c", "a", "-", "C", "o", "l", "a">>,
                    <<"P", "e", "p", "s", "i", "C", "o">>,
                    <<"H", "a", "l", "d", "i", "r", "a", "m", "'", "s">>,
                    <<"M", "T", "R">>,
                    <<"P", "a", "t", "a", "n", "j", "a", "l", "i">>>>,
         global |-> <<<<"C", "o", "c", "a", "-", "C", "o", "l", "a">>,
                     <<"P", "e", "p", "s", "i", "C", "o">>,
                     <<"N", "e", "s", "t", "l", "e">>,
                     <<"U", "n", "i", "l", "e", "v", "e", "r">>,
                     <<"M", "a", "r", "s">>,
                     <<"M", "o", "n", "d", "e", "l", "e", "z">>,
                     <<"K", "r", "a", "f", "t", " ", "H", "e", "i", "n", "z">>,
                     <<"G", "e", "n", "e", "r", "a", "l", " ", "M", "i", "l", "l", "s">>,
                     <<"K", "e", "l", "l", "o", "g", "g", "'", "s">>,
                     <<"S", "t", "a", "r", "b", "u", "c", "k", "s">>>>]]

placeholder_brands == <<<<"B", "r", "a", "n", "d", " ", "A">>,
                        <<"B", "r", "a", "n", "d", " ", "B">>,
                        <<"B", "r", "a", "n", "d", " ", "C">>,
                        <<"B", "r", "a", "n", "d", " ", "D">>,
                        <<"B", "r", "a", "n", "d", " ", "E">>>>

\* 'India' if 'india' in market.lower() else 'global'
market_key(market) ==
    IF Contains(lower(market), <<"i", "n", "d", "i", "a">>) THEN "India" ELSE "global"

\* get_fallback_brands with the automotive brands for a category it has no
\* entry for.
get_fallback_brands_automotiveDefault(category, market) ==
    IF category \in DOMAIN fallback_brands
    THEN fallback_brands[category][market_key(market)]
    ELSE fallback_brands["automotive"][market_key(market)]

\* get_fallback_brands that ignores the market.
get_fallback_brands_alwaysGlobal(category, market) ==
    IF category \in DOMAIN fallback_brands
    THEN fallback_brands[category]["global"]
    ELSE placeholder_brands

get_fallback_brands(category, market) ==
    IF category \in DOMAIN fallback_brands
       /\ market_key(market) \in DOMAIN fallback_brands[category]
    THEN fallback_brands[category][market_key(market)]
    ELSE IF category \in DOMAIN fallback_brands
    THEN fallback_brands[category]["global"]
    ELSE placeholder_brands

\* What the brand lookup call comes back with: the lines of the reply's
\* content, or an exception.
Content(lines) == [raised |-> FALSE, lines |-> lines]
Raised == [raised |-> TRUE, lines |-> << >>]
\* No lookup was made yet.
NoResponse == Content(<< >>)

\* The cleaning of one line of the reply: bullets, dashes and asterisks
\* removed, then the digits 1 to 9, then the surrounding blanks.
clean_brand(line) ==
    strip(SelectSeq(SelectSeq(line, LAMBDA c : c \notin {Bullet, "-", "*"}),
                    LAMBDA c : c \notin {"1", "2", "3", "4", "5", "6", "7", "8", "9"}))

\* [line.strip() for line in brand_text.split('\n') if line.strip()]
brand_lines(lines) ==
    SelectSeq([i \in DOMAIN lines |-> strip(lines[i])], LAMBDA line : line # << >>)

\* The brands list after the loop over brand_lines.
brands_of(lines) ==
    SelectSeq([i \in DOMAIN brand_lines(lines) |-> clean_brand(brand_lines(lines)[i])],
              LAMBDA b : Len(b) > 2 /\ Len(b) < 50)

\* get_dynamic_brand_list_from_research that returns whatever it cleaned.
get_dynamic_brand_list_from_research_noMinimum(category, market, reply) ==
    IF reply.raised
    THEN get_fallback_brands(category, market)
    ELSE SubSeq(brands_of(reply.lines), 1,
                IF Len(brands_of(reply.lines)) < 15 THEN Len(brands_of(reply.lines)) ELSE 15)

\* The lookup call raised, or fewer than five brands were found (which
\* raises too): the except branch returns the fallback.  Otherwise
\* brands[:15].
get_dynamic_brand_list_from_research(category, market, reply) ==
    IF reply.raised
    THEN get_fallback_brands(category, market)
    ELSE LET brands == brands_of(reply.lines)
         IN  IF Len(brands) >= 5
             THEN SubSeq(brands, 1, IF Len(brands) < 15 THEN Len(brands) ELSE 15)
             ELSE get_fallback_brands(category, market)

\* `reply` is consulted only when there is a key.
get_comprehensive_brand_list(category, market, key, reply) ==
    IF key # NoText
    THEN get_dynamic_brand_list_from_research(category, market, reply)
    ELSE get_fallback_brands(category, market)

\* ------------------------------------------------ brand lookup replies
\* Six names, one per line.
PlainReply ==
    Content(<<<<"T", "o", "y", "o", "t", "a">>,
              <<"H", "o", "n", "d", "a">>,
              <<"F", "o", "r", "d">>,
              <<"B", "M", "W">>,
              <<"A", "u", "d", "i">>,
              <<"K", "i", "a">>>>)

\* A numbered and bulleted list.
NumberedReply ==
    Content(<<<<"1", ".", " ", "T", "o", "y", "o", "t", "a">>,
              <<"2", ".", " ", "H", "o", "n", "d", "a">>,
              <<"-", " ", "F", "o", "r", "d">>,
              <<"*", " ", "B", "M", "W">>,
              <<"1", "0", ".", " ", "A", "u", "d", "i">>,
              <<"M", "e", "r", "c", "e", "d", "e", "s", "-", "B", "e", "n", "z">>>>)

\* A list that names one brand twice.
RepeatingReply ==
    Content(<<<<"T", "o", "y", "o", "t", "a">>,
              <<"H", "o", "n", "d", "a">>,
              <<"T", "o", "y", "o", "t", "a">>,
              <<"F", "o", "r", "d">>,
              <<"B", "M", "W">>,
              <<"A", "u", "d", "i">>>>)

\* Sixteen names.
SixteenReply ==
    Content(<<<<"T", "o", "y", "o", "t", "a">>,
              <<"H", "o", "n", "d", "a">>,
              <<"F", "o", "r", "d">>,
              <<"B", "M", "W">>,
              <<"A", "u", "d", "i">>,
              <<"K", "i", "a">>,
              <<"T", "e", "s", "l", "a">>,
              <<"N", "i", "s", "s", "a", "n">>,
              <<"V", "o", "l", "v", "o">>,
              <<"M", "a", "z", "d", "a">>,
              <<"S", "k", "o", "d", "a">>,
              <<"J", "e", "e", "p">>,
              <<"F", "i", "a", "t">>,
              <<"L", "e", "x", "u", "s">>,
              <<"M", "i", "n", "i">>,
              <<"S", "e", "a", "t">>>>)

\* Three usable names among six lines.
SparseReply ==
    Content(<<<<"K", "i", "a">>,
              <<"L", "G">>,
              <<"-", " ", "H", "P">>,
              <<" ">>,
              <<"F", "o", "r", "d">>,
              <<"B", "M", "W">>>>)

\* A line of n characters.
LineOfLength(n) == [i \in 1..n |-> "x"]
\* Lines of 49 and of 50 characters among four names.
LengthsReply ==
    Content(<<LineOfLength(49), LineOfLength(50)>> \o SubSeq(PlainReply.lines, 1, 4))

BrandReplies ==
    {Raised, PlainReply, NumberedReply, RepeatingReply, SixteenReply, SparseReply,
     LengthsReply}
\* The replies of the brand lookup that Spec and SpecFresh explore.
RunBrandReplies == {Raised, PlainReply}

\* --------------------------------------------------------------- requests
\* A request to the collaborator: which section, how many questions, and
\* the numbers the prompt asks for.
Call(kind, count, from, to) == [kind |-> kind, count |-> count, from |-> from, to |-> to]

BrandCall == Call("brands", 0, 0, 0)
ResearchCall == Call("research", 0, 0, 0)
ScreenerCall(qc) == Call("screener", qc.screener, 1, qc.screener)
CorePart1Call(qc) == Call("core_part1", core_part1_count(qc), start_q(qc), end_q(qc))
CorePart2Call(qc) == Call("core_part2", core_part2_count(qc), start_q2(qc), end_q2(qc))
DemoCall(qc) == Call("demographics", qc.demographics, demo_start(qc), demo_end(qc))

\* The completion pass asks for remaining_count questions, numbered from
\* actual_count + 1 through the planned total.
remaining_count(qc, actual) == qc.total - actual
CompletionCall(qc, actual) ==
    Call("completion", remaining_count(qc, actual), actual + 1, qc.total)

\* The validation with <= for <.
NeedsCompletion_orEqual(actual, qc) == actual <= qc.total
\* if actual_count < question_counts['total']
NeedsCompletion(actual, qc) == actual < qc.total

QuestionnaireKinds == {"screener", "core_part1", "core_part2", "demographics", "completion"}

\* brand_list[:n]
Take(names, n) == SubSeq(names, 1, IF Len(names) < n THEN Len(names) ELSE n)
NoBrands == << >>

\* What the prompt of a request (user and system message) carries of the
\* category and of the brands: the category label, brand_list_text, the
\* top_10_brands or top_6_brands it names, and the slices of brand_list it
\* lists as answer options.
Prompt(kind, category, brand_list_text, top_brands, listed) ==
    [kind |-> kind, category |-> category, brand_list_text |-> brand_list_text,
     top_brands |-> top_brands, listed |-> listed]

BrandPrompt(category, names) == Prompt("brands", category, NoBrands, NoBrands, << >>)
ResearchPrompt(category, names) == Prompt("research", category, NoBrands, NoBrands, << >>)
ScreenerPrompt(category, names) ==
    Prompt("screener", category, names, Take(names, 10), << >>)
CorePart1Prompt(category, names) ==
    Prompt("core_part1", category, names, Take(names, 10),
           <<Take(names, 12), Take(names, 10)>>)
\* The part 2 prompt with the brands of the fallback table.
CorePart2Prompt_fallbackBrands(category, names) ==
    Prompt("core_part2", category, get_fallback_brands(category, DefaultMarket),
           Take(get_fallback_brands(category, DefaultMarket), 6),
           <<Take(get_fallback_brands(category, DefaultMarket), 6)>>)
CorePart2Prompt(category, names) ==
    Prompt("core_part2", category, names, Take(names, 6), <<Take(names, 6)>>)
\* The demographics prompt without the category of the study.
DemoPrompt_generic(category, names) ==
    Prompt("demographics", "general", NoBrands, NoBrands, << >>)
DemoPrompt(category, names) == Prompt("demographics", category, NoBrands, NoBrands, << >>)
CompletionPrompt(category, names) == Prompt("completion", category, names, NoBrands, << >>)

\* ------------------------------------------------------------ collaborator
\* The questions from..to as a reply writes them: a question line followed
\* by a metadata line, for each number.
Questions(from, to) ==
    IF to < from THEN EmptyText
    ELSE [i \in 1..(2 * (to - from + 1)) |->
            IF i % 2 = 1 THEN Line("qdot", from + (i - 1) \div 2) ELSE Line("meta", 0)]

\* The metadata a reply that follows its prompt carries besides Purpose
\* lines: the screener's first question has its termination logic, the first
\* question of core part 1 is an attention check.
Marked(text, kind) ==
    IF Len(text) < 2 \/ kind \notin {"screener", "core_part1"} THEN text
    ELSE [text EXCEPT ![2] = IF kind = "screener" THEN Line("termination", 0)
                             ELSE Line("fraud", 0)]

\* "full" follows the prompt; "short" is cut off before the last question
\* and carries Purpose lines only.
Reply(shape, call) ==
    CASE shape = "full" -> Marked(Questions(call.from, call.to), call.kind)
      [] shape = "short" -> Questions(call.from, call.to - 1)

\* ---------------------------------------------------------------- reports
Msg(kind, a, b) == [kind |-> kind, a |-> a, b |-> b]

\* ------------------------------------------------------------------ state
EmptyDict ==
    [survey_objective |-> NoText, target_audience |-> NoText, survey_loi |-> 0,
     market_country |-> NoText, detected_category |-> ""]

NoRun ==
    /\ survey_data = EmptyDict
    /\ question_counts = NoCounts
    /\ questionnaire = EmptyText
    /\ actual_count = 0
    /\ final_count = 0
    /\ detected_category = ""
    /\ confidence = 0
    /\ brand_list = NoBrands
    /\ brand_response = NoResponse

\* The locals of a script run that generates nothing.
NoRunNext ==
    /\ survey_data' = EmptyDict
    /\ question_counts' = NoCounts
    /\ questionnaire' = EmptyText
    /\ actual_count' = 0
    /\ final_count' = 0
    /\ detected_category' = ""
    /\ confidence' = 0
    /\ brand_list' = NoBrands
    /\ brand_response' = NoResponse

Init ==
    /\ api_key = NoText
    /\ survey_objective = NoText
    /\ target_audience = NoText
    /\ survey_loi = DefaultLoi
    /\ market_country = DefaultMarket
    /\ q_counts = calculate_question_count(DefaultLoi)
    /\ questionnaire_generated = FALSE
    /\ questionnaire_text = EmptyText
    /\ survey_data_stored = EmptyDict
    /\ generated_from = EmptyDict
    /\ pc = "idle"
    /\ outcome = "none"
    /\ NoRun
    /\ calls = << >>
    /\ prompts = << >>
    /\ messages = << >>


\* ---------------------------------------------------------------- actions
\* Every interaction reruns the script from the top: the distribution is
\* recomputed and displayed, and what the previous run rendered is gone.
ScriptRerun(loi) ==
    /\ q_counts' = calculate_question_count(loi)
    /\ pc' = "idle"
    /\ outcome' = "none"
    /\ NoRunNext
    /\ calls' = << >>
    /\ prompts' = << >>
    /\ messages' = << >>

SetApiKey(k) ==
    /\ pc = "idle"
    /\ k # api_key
    /\ api_key' = k
    /\ UNCHANGED <<survey_objective, target_audience, survey_loi, market_country,
                   sessionVars>>
    /\ ScriptRerun(survey_loi)

SetObjective(t) ==
    /\ pc = "idle"
    /\ t # survey_objective
    /\ survey_objective' = t
    /\ UNCHANGED <<api_key, target_audience, survey_loi, market_country, sessionVars>>
    /\ ScriptRerun(survey_loi)

SetAudience(t) ==
    /\ pc = "idle"
    /\ t # target_audience
    /\ target_audience' = t
    /\ UNCHANGED <<api_key, survey_objective, survey_loi, market_country, sessionVars>>
    /\ ScriptRerun(survey_loi)

SetLoi(l) ==
    /\ pc = "idle"
    /\ l # survey_loi
    /\ survey_loi' = l
    /\ UNCHANGED <<api_key, survey_objective, target_audience, market_country,
                   sessionVars>>
    /\ ScriptRerun(l)

SetMarket(m) ==
    /\ pc = "idle"
    /\ m # market_country
    /\ market_country' = m
    /\ UNCHANGED <<api_key, survey_objective, target_audience, survey_loi, sessionVars>>
    /\ ScriptRerun(survey_loi)

\* "Reset Form": every session key but api_key is deleted, then st.rerun().
ResetForm ==
    /\ pc = "idle"
    /\ survey_objective' = NoText
    /\ target_audience' = NoText
    /\ survey_loi' = DefaultLoi
    /\ market_country' = DefaultMarket
    /\ questionnaire_generated' = FALSE
    /\ questionnaire_text' = EmptyText
    /\ survey_data_stored' = EmptyDict
    /\ generated_from' = EmptyDict
    /\ UNCHANGED api_key
    /\ ScriptRerun(DefaultLoi)

\* GenerateClick that stores the survey data before it checks the key.
GenerateClick_storesBeforeKeyCheck ==
    /\ pc = "idle"
    /\ q_counts' = calculate_question_count(survey_loi)
    /\ UNCHANGED formVars
    /\ \/ /\ api_key = NoText
          /\ messages' = <<Msg("error_api_key", 0, 0)>>
          /\ outcome' = "stopped"
          /\ pc' = "idle"
          /\ calls' = << >>
          /\ prompts' = << >>
          /\ NoRunNext
          /\ survey_data_stored' = [survey_objective |-> survey_objective,
                                    target_audience |-> target_audience,
                                    survey_loi |-> survey_loi,
                                    market_country |-> market_country,
                                    detected_category |-> ""]
          /\ UNCHANGED <<questionnaire_generated, questionnaire_text, generated_from>>
       \/ /\ api_key # NoText
          /\ survey_objective = NoText \/ target_audience = NoText
          /\ messages' = <<Msg("error_inputs", 0, 0)>>
          /\ outcome' = "stopped"
          /\ pc' = "idle"
          /\ calls' = << >>
          /\ prompts' = << >>
          /\ NoRunNext
          /\ UNCHANGED sessionVars
       \/ /\ api_key # NoText
          /\ survey_objective # NoText /\ target_audience # NoText
          /\ detected_category' =
                detect_survey_category(survey_objective, target_audience).category
          /\ confidence' =
                detect_survey_category(survey_objective, target_audience).confidence
          /\ survey_data' = [survey_objective |-> survey_objective,
                             target_audience |-> target_audience,
                             survey_loi |-> survey_loi,
                             market_country |-> market_country,
                             detected_category |-> detected_category']
          /\ survey_data_stored' = survey_data'
          /\ UNCHANGED <<questionnaire_generated, questionnaire_text, generated_from>>
          /\ question_counts' = calculate_question_count(survey_data'.survey_loi)
          /\ questionnaire' = EmptyText
          /\ actual_count' = 0
          /\ final_count' = 0
          /\ brand_list' = NoBrands
          /\ brand_response' = NoResponse
          /\ messages' = <<Msg("info_category", confidence', 0)>>
          /\ calls' = <<BrandCall>>
          /\ prompts' = <<BrandPrompt(detected_category', NoBrands)>>
          /\ outcome' = "running"
          /\ pc' = "brands"

\* GenerateClick that classifies before it checks the inputs.
GenerateClick_classifiesBeforeInputCheck ==
    /\ pc = "idle"
    /\ q_counts' = calculate_question_count(survey_loi)
    /\ UNCHANGED formVars
    /\ \/ /\ api_key = NoText
          /\ messages' = <<Msg("error_api_key", 0, 0)>>
          /\ outcome' = "stopped"
          /\ pc' = "idle"
          /\ calls' = << >>
          /\ prompts' = << >>
          /\ NoRunNext
          /\ UNCHANGED sessionVars
       \/ /\ api_key # NoText
          /\ survey_objective = NoText \/ target_audience = NoText
          /\ messages' = <<Msg("error_inputs", 0, 0)>>
          /\ outcome' = "stopped"
          /\ pc' = "idle"
          /\ calls' = << >>
          /\ prompts' = << >>
          /\ survey_data' = EmptyDict
          /\ question_counts' = NoCounts
          /\ questionnaire' = EmptyText
          /\ actual_count' = 0
          /\ final_count' = 0
          /\ detected_category' =
                detect_survey_category(survey_objective, target_audience).category
          /\ confidence' =
                detect_survey_category(survey_objective, target_audience).confidence
          /\ brand_list' = NoBrands
          /\ brand_response' = NoResponse
          /\ UNCHANGED sessionVars
       \/ /\ api_key # NoText
          /\ survey_objective # NoText /\ target_audience # NoText
          /\ detected_category' =
                detect_survey_category(survey_objective, target_audience).category
          /\ confidence' =
                detect_survey_category(survey_objective, target_audience).confidence
          /\ survey_data' = [survey_objective |-> survey_objective,
                             target_audience |-> target_audience,
                             survey_loi |-> survey_loi,
                             market_country |-> market_country,
                             detected_category |-> detected_category']
          /\ survey_data_stored' = survey_data'
          /\ UNCHANGED <<questionnaire_generated, questionnaire_text, generated_from>>
          /\ question_counts' = calculate_question_count(survey_data'.survey_loi)
          /\ questionnaire' = EmptyText
          /\ actual_count' = 0
          /\ final_count' = 0
          /\ brand_list' = NoBrands
          /\ brand_response' = NoResponse
          /\ messages' = <<Msg("info_category", confidence', 0)>>
          /\ calls' = <<BrandCall>>
          /\ prompts' = <<BrandPrompt(detected_category', NoBrands)>>
          /\ outcome' = "running"
          /\ pc' = "brands"

\* The "Generate" button: the checks of the key and of the inputs, the
\* storage of the survey data, the budget, and the first collaborator call.
GenerateClick ==
    /\ pc = "idle"
    /\ q_counts' = calculate_question_count(survey_loi)
    /\ UNCHANGED formVars
    /\ \/ /\ api_key = NoText
          /\ messages' = <<Msg("error_api_key", 0, 0)>>
          /\ outcome' = "stopped"
          /\ pc' = "idle"
          /\ calls' = << >>
          /\ prompts' = << >>
          /\ NoRunNext
          /\ UNCHANGED sessionVars
       \/ /\ api_key # NoText
          /\ survey_objective = NoText \/ target_audience = NoText
          /\ messages' = <<Msg("error_inputs", 0, 0)>>
          /\ outcome' = "stopped"
          /\ pc' = "idle"
          /\ calls' = << >>
          /\ prompts' = << >>
          /\ NoRunNext
          /\ UNCHANGED sessionVars
       \/ /\ api_key # NoText
          /\ survey_objective # NoText /\ target_audience # NoText
          /\ detected_category' =
                detect_survey_category(survey_objective, target_audience).category
          /\ confidence' =
                detect_survey_category(survey_objective, target_audience).confidence
          /\ survey_data' = [survey_objective |-> survey_objective,
                             target_audience |-> target_audience,
                             survey_loi |-> survey_loi,
                             market_country |-> market_country,
                             detected_category |-> detected_category']
          /\ survey_data_stored' = survey_data'
          /\ UNCHANGED <<questionnaire_generated, questionnaire_text, generated_from>>
          /\ question_counts' = calculate_question_count(survey_data'.survey_loi)
          /\ questionnaire' = EmptyText
          /\ actual_count' = 0
          /\ final_count' = 0
          /\ brand_list' = NoBrands
          /\ brand_response' = NoResponse
          /\ messages' = <<Msg("info_category", confidence', 0)>>
          /\ calls' = <<BrandCall>>
          /\ prompts' = <<BrandPrompt(detected_category', NoBrands)>>
          /\ outcome' = "running"
          /\ pc' = "brands"

\* The report on the brand list: brand_research_success is True on every
\* path that reaches it, so the length of the list decides.
BrandReport(names) ==
    IF Len(names) > 5
    THEN Msg("success_brand_research", Len(names), 0)
    ELSE Msg("error_brand_research", Len(names), 0)

\* The brand lookup returns one of `replies`; get_comprehensive_brand_list
\* absorbs any failure of it.  The list is reported and the market research
\* request follows.
BrandsReply(replies) ==
    /\ pc = "brands"
    /\ brand_response' \in replies
    /\ brand_list' = get_comprehensive_brand_list(detected_category,
                         survey_data.market_country, api_key, brand_response')
    /\ messages' = Append(messages, BrandReport(brand_list'))
    /\ calls' = Append(calls, ResearchCall)
    /\ prompts' = Append(prompts, ResearchPrompt(detected_category, brand_list'))
    /\ pc' = "research"
    /\ UNCHANGED <<formVars, q_counts, sessionVars, outcome, runVars, categoryVars>>

\* web_research_brands_and_trends returns a text or its own error text;
\* either is discarded.  full_questionnaire = "" and the screener request.
ResearchReply ==
    /\ pc = "research"
    /\ questionnaire' = EmptyText
    /\ calls' = Append(calls, ScreenerCall(question_counts))
    /\ prompts' = Append(prompts, ScreenerPrompt(detected_category, brand_list))
    /\ pc' = "screener"
    /\ UNCHANGED <<formVars, q_counts, sessionVars, outcome, messages, categoryVars,
                   brandVars, survey_data, question_counts, actual_count, final_count>>

ScreenerReply ==
    /\ pc = "screener"
    /\ \E shape \in Shapes :
          questionnaire' = Concat(Concat(questionnaire,
                                         Reply(shape, ScreenerCall(question_counts))),
                                  TwoNewlines)
    /\ calls' = Append(calls, CorePart1Call(question_counts))
    /\ prompts' = Append(prompts, CorePart1Prompt(detected_category, brand_list))
    /\ pc' = "core_part1"
    /\ UNCHANGED <<formVars, q_counts, sessionVars, outcome, messages, categoryVars,
                   brandVars, survey_data, question_counts, actual_count, final_count>>

CorePart1Reply ==
    /\ pc = "core_part1"
    /\ \E shape \in Shapes :
          questionnaire' = Concat(Concat(questionnaire,
                                         Reply(shape, CorePart1Call(question_counts))),
                                  TwoNewlines)
    /\ calls' = Append(calls, CorePart2Call(question_counts))
    /\ prompts' = Append(prompts, CorePart2Prompt(detected_category, brand_list))
    /\ pc' = "core_part2"
    /\ UNCHANGED <<formVars, q_counts, sessionVars, outcome, messages, categoryVars,
                   brandVars, survey_data, question_counts, actual_count, final_count>>

CorePart2Reply ==
    /\ pc = "core_part2"
    /\ \E shape \in Shapes :
          questionnaire' = Concat(Concat(questionnaire,
                                         Reply(shape, CorePart2Call(question_counts))),
                                  TwoNewlines)
    /\ calls' = Append(calls, DemoCall(question_counts))
    /\ prompts' = Append(prompts, DemoPrompt(detected_category, brand_list))
    /\ pc' = "demographics"
    /\ UNCHANGED <<formVars, q_counts, sessionVars, outcome, messages, categoryVars,
                   brandVars, survey_data, question_counts, actual_count, final_count>>

\* The final count report that always announces a complete questionnaire.
FinalReport_alwaysComplete(final, qc) == Msg("success_complete", final, 0)
\* The final count report: complete, or final_count out of the total.
FinalReport(final, qc) ==
    IF final >= qc.total
    THEN Msg("success_complete", final, 0)
    ELSE Msg("success_partial", final, qc.total)

\* Finish that raises when the questionnaire is short, into the except branch.
Finish_raisesOnShortfall(text, actual, reports) ==
    IF CountQuestionLines(text) < question_counts.total
    THEN /\ actual_count' = actual
         /\ final_count' = 0
         /\ messages' = Append(reports, Msg("error_failed", 0, 0))
         /\ outcome' = "failed"
         /\ pc' = "idle"
         /\ UNCHANGED sessionVars
    ELSE /\ actual_count' = actual
         /\ questionnaire_text' = format_questionnaire_with_logic(text)
         /\ questionnaire_generated' = TRUE
         /\ generated_from' = survey_data
         /\ final_count' = CountQuestionLines(text)
         /\ messages' = reports \o
               <<Msg("info_summary", actual, question_counts.total),
                 FinalReport(final_count', question_counts)>>
         /\ outcome' = "done"
         /\ pc' = "idle"
         /\ UNCHANGED survey_data_stored

\* The generation summary, the formatting and storage, and the final count
\* report, for the questionnaire `text` whose validated count is `actual`.
Finish(text, actual, reports) ==
    /\ actual_count' = actual
    /\ questionnaire_text' = format_questionnaire_with_logic(text)
    /\ questionnaire_generated' = TRUE
    /\ generated_from' = survey_data
    /\ final_count' = CountQuestionLines(text)
    /\ messages' = reports \o
          <<Msg("info_summary", actual, question_counts.total),
            FinalReport(final_count', question_counts)>>
    /\ outcome' = "done"
    /\ pc' = "idle"
    /\ UNCHANGED survey_data_stored

\* The demographics reply is appended and the count validated: either the
\* completion pass is requested, or the run finishes.
DemoReply ==
    /\ pc = "demographics"
    /\ \E shape \in Shapes :
          questionnaire' = Concat(questionnaire, Reply(shape, DemoCall(question_counts)))
    /\ LET actual == CountQuestionLines(questionnaire')
       IN  \/ /\ NeedsCompletion(actual, question_counts)
              /\ actual_count' = actual
              /\ messages' = Append(messages,
                                    Msg("warning_incomplete", actual, question_counts.total))
              /\ calls' = Append(calls, CompletionCall(question_counts, actual))
              /\ prompts' = Append(prompts, CompletionPrompt(detected_category, brand_list))
              /\ pc' = "completion"
              /\ UNCHANGED <<sessionVars, outcome, final_count>>
           \/ /\ ~NeedsCompletion(actual, question_counts)
              /\ Finish(questionnaire', actual, messages)
              /\ UNCHANGED <<calls, prompts>>
    /\ UNCHANGED <<formVars, q_counts, survey_data, question_counts, categoryVars, brandVars>>

\* CompletionReply that asks again while the questionnaire is short.
CompletionReply_retries ==
    /\ pc = "completion"
    /\ \E shape \in Shapes :
          questionnaire' = Concat(Concat(questionnaire, TwoNewlines),
                                  Reply(shape, CompletionCall(question_counts, actual_count)))
    /\ LET actual == CountQuestionLines(questionnaire')
       IN  IF NeedsCompletion(actual, question_counts) /\ Len(calls) < 9
           THEN /\ actual_count' = actual
                /\ calls' = Append(calls, CompletionCall(question_counts, actual))
                /\ prompts' = Append(prompts,
                                     CompletionPrompt(detected_category, brand_list))
                /\ UNCHANGED <<pc, sessionVars, outcome, final_count, messages>>
           ELSE /\ Finish(questionnaire', actual, messages)
                /\ UNCHANGED <<calls, prompts>>
    /\ UNCHANGED <<formVars, q_counts, survey_data, question_counts, categoryVars, brandVars>>

\* The completion reply is appended and counted once more; the run finishes.
CompletionReply ==
    /\ pc = "completion"
    /\ \E shape \in Shapes :
          questionnaire' = Concat(Concat(questionnaire, TwoNewlines),
                                  Reply(shape, CompletionCall(question_counts, actual_count)))
    /\ Finish(questionnaire', CountQuestionLines(questionnaire'), messages)
    /\ UNCHANGED <<formVars, q_counts, survey_data, question_counts, calls, prompts,
                   categoryVars, brandVars>>

\* GenerationError that stores what was generated before the failure.
GenerationError_storesPartial ==
    /\ pc \in QuestionnaireKinds
    /\ messages' = Append(messages, Msg("error_failed", 0, 0))
    /\ outcome' = "failed"
    /\ pc' = "idle"
    /\ questionnaire' = EmptyText
    /\ questionnaire_text' = format_questionnaire_with_logic(questionnaire)
    /\ questionnaire_generated' = TRUE
    /\ generated_from' = survey_data
    /\ UNCHANGED <<formVars, q_counts, survey_data_stored, calls, prompts, categoryVars,
                   brandVars, survey_data, question_counts, actual_count, final_count>>

\* A questionnaire request raises: the except branch reports the failure
\* and the script ends, the text under construction with it.
GenerationError ==
    /\ pc \in QuestionnaireKinds
    /\ messages' = Append(messages, Msg("error_failed", 0, 0))
    /\ outcome' = "failed"
    /\ pc' = "idle"
    /\ questionnaire' = EmptyText
    /\ UNCHANGED <<formVars, q_counts, sessionVars, calls, prompts, categoryVars,
                   brandVars, survey_data, question_counts, actual_count, final_count>>

RunStep ==
    \/ BrandsReply(RunBrandReplies)
    \/ ResearchReply
    \/ ScreenerReply
    \/ CorePart1Reply
    \/ CorePart2Reply
    \/ DemoReply
    \/ CompletionReply
    \/ GenerationError

FormEdit(lois) ==
    \/ \E k \in ApiKeys : SetApiKey(k)
    \/ \E t \in Objectives : SetObjective(t)
    \/ \E t \in Audiences : SetAudience(t)
    \/ \E l \in lois : SetLoi(l)

\* One session, any number of runs, LOI values in RunLoi.
Next ==
    \/ FormEdit(RunLoi)
    \/ ResetForm
    \/ GenerateClick
    \/ RunStep

Spec == Init /\ [][Next]_vars

\* A session up to its first stored questionnaire (and again after each
\* "Reset Form"), every valid LOI.
FirstQuestionnaire == ~questionnaire_generated

NextFresh ==
    \/ FirstQuestionnaire /\ FormEdit(ValidLoi)
    \/ FirstQuestionnaire /\ GenerateClick
    \/ ResetForm
    \/ RunStep

SpecFresh == Init /\ [][NextFresh]_vars

\* The form as filled in for the two end-to-end scenarios: an objective with
\* 'automotive' and 'car' (and a LOI of 20), and one without any keyword
\* (and a LOI of 15):
\*   "automotive car buyers"
\*   "customer satisfaction"
ScenarioObjectives ==
    {NoText,
     <<"a", "u", "t", "o", "m", "o", "t", "i", "v", "e", " ", "c", "a", "r", " ", "b", "u", "y", "e", "r", "s">>,
     <<"c", "u", "s", "t", "o", "m", "e", "r", " ", "s", "a", "t", "i", "s", "f", "a", "c", "t", "i", "o", "n">>}

InitScenario ==
    /\ api_key \in ApiKeys
    /\ survey_objective \in ScenarioObjectives
    /\ target_audience \in Audiences
    /\ survey_loi \in {15, DefaultLoi}
    /\ market_country = DefaultMarket
    /\ q_counts = calculate_question_count(survey_loi)
    /\ questionnaire_generated = FALSE
    /\ questionnaire_text = EmptyText
    /\ survey_data_stored = EmptyDict
    /\ generated_from = EmptyDict
    /\ pc = "idle"
    /\ outcome = "none"
    /\ NoRun
    /\ calls = << >>
    /\ prompts = << >>
    /\ messages = << >>

\* One click on "Generate" and the run it starts.
NextScenario ==
    \/ FirstQuestionnaire /\ outcome = "none" /\ GenerateClick
    \/ RunStep

SpecScenario == InitScenario /\ [][NextScenario]_vars

\* The form as filled in before "Generate" is clicked, for the texts the
\* classifier and the brand resolution are explored with.
InitResolve ==
    /\ api_key \in ApiKeys
    /\ survey_objective \in ClassifierObjectives
    /\ target_audience \in ClassifierAudiences
    /\ survey_loi = DefaultLoi
    /\ market_country \in Markets
    /\ q_counts = calculate_question_count(DefaultLoi)
    /\ questionnaire_generated = FALSE
    /\ questionnaire_text = EmptyText
    /\ survey_data_stored = EmptyDict
    /\ generated_from = EmptyDict
    /\ pc = "idle"
    /\ outcome = "none"
    /\ NoRun
    /\ calls = << >>
    /\ prompts = << >>
    /\ messages = << >>

\* The market edited, and a run from the click to the end of the brand
\* resolution, for every reply of the brand lookup.
NextResolve ==
    \/ \E m \in Markets : SetMarket(m)
    \/ GenerateClick
    \/ BrandsReply(BrandReplies)

SpecResolve == InitResolve /\ [][NextResolve]_vars


\* ------------------------------------------------------------- properties
BatchKinds == {"screener", "core_part1", "core_part2", "demographics"}

\* The requests of the given kinds, in the order they were issued.
CallsOf(kinds) == SelectSeq(calls, LAMBDA c : c.kind \in kinds)
KindsOf(cs) == [i \in DOMAIN cs |-> cs[i].kind]
IsPrefix(a, b) == Len(a) <= Len(b) /\ SubSeq(b, 1, Len(a)) = a
SumOfCounts(cs) == cs[1].count + cs[2].count + cs[3].count + cs[4].count

TotalIsSum(b) ==
    /\ b.total = b.screener + b.core_research + b.demographics
    /\ b.total > 0

\* C1: for every LOI of the valid range the budget returned by
\* calculate_question_count, both the one displayed for the LOI of the form
\* and the one a run plans with, has total = screener + core_research +
\* demographics, and total > 0.
C1_TotalIsSum ==
    /\ survey_loi \in ValidLoi
    /\ TotalIsSum(q_counts)
    /\ outcome \in {"running", "done", "failed"} =>
          /\ survey_data.survey_loi \in ValidLoi
          /\ TotalIsSum(question_counts)

C1_Witness ==
    /\ survey_loi = MaxLoi
    /\ q_counts.total = 198
    /\ pc = "screener"
    /\ question_counts.total = 198

\* C2: for every valid LOI, the minimum included, the screener and the
\* demographics counts are at least their floor of 8 (at the minimum LOI the
\* floor, not the multiplier, decides both), and the core count is at least
\* its least value, which is above that floor.
C2_ComponentsAtLeastFloor ==
    LET AtLeastFloor(b, loi) ==
            /\ b.screener >= SectionFloor
            /\ b.demographics >= SectionFloor
            /\ b.core_research >= SectionFloor
            /\ b.core_research >= (5 * MinLoi) \div 2
            /\ loi = MinLoi =>
                  /\ b.screener = SectionFloor
                  /\ b.demographics = SectionFloor
                  /\ (4 * loi) \div 10 < SectionFloor
    IN  /\ AtLeastFloor(q_counts, survey_loi)
        /\ outcome \in {"running", "done", "failed"} =>
              AtLeastFloor(question_counts, survey_data.survey_loi)

C2_Witness ==
    /\ survey_loi = MinLoi
    /\ pc = "screener"
    /\ question_counts.screener = SectionFloor
    /\ question_counts.demographics = SectionFloor
    /\ question_counts.total = 28

\* C3: whenever the LOI of the form is changed from a to b with a <= b, the
\* total of the budget for b is at least the total of the budget for a.
C3_TotalMonotone ==
    [][survey_loi <= survey_loi' => q_counts.total <= q_counts'.total]_vars

C3_Witness ==
    /\ survey_loi = MaxLoi
    /\ q_counts.total > calculate_question_count(MaxLoi - 1).total
    /\ calculate_question_count(MaxLoi - 1).total > calculate_question_count(DefaultLoi).total

\* C4: the numbered ranges handed to the generator for the four batches are
\* contiguous and non-overlapping: the first starts at 1, each next one starts
\* right after the previous one ends, each count is the length of its range,
\* and once all four are issued the counts sum to the planned total and the
\* last range ends at the total.
C4_RangesCoverTotal ==
    LET b == CallsOf(BatchKinds)
    IN  /\ Len(b) >= 1 => b[1].from = 1
        /\ \A i \in DOMAIN b :
              /\ b[i].count = b[i].to - b[i].from + 1
              /\ b[i].count >= 1
        /\ \A i \in 1..(Len(b) - 1) : b[i + 1].from = b[i].to + 1
        /\ Len(b) <= 4
        /\ Len(b) = 4 =>
              /\ b[4].to = question_counts.total
              /\ SumOfCounts(b) = question_counts.total
              /\ b[4].to = demo_end(question_counts)

C4_Witness ==
    LET b == CallsOf(BatchKinds)
    IN  /\ Len(b) = 4
        /\ survey_data.survey_loi = MaxLoi - 1
        /\ b[2].to - b[2].from # b[3].to - b[3].from
        /\ b[4].to = 193

\* C5: the core-research section is requested as exactly two consecutive
\* batches, the first of floor(core_research / 2) questions and the second
\* of the remainder, so the counts differ by at most 1 and sum to
\* core_research; the screener is one batch numbered 1..screener and the
\* demographics are one batch, the last.
C5_CoreSplitInTwo ==
    LET b == CallsOf(BatchKinds)
        core == question_counts.core_research
    IN  /\ IsPrefix(KindsOf(b), <<"screener", "core_part1", "core_part2", "demographics">>)
        /\ Len(b) >= 1 =>
              /\ b[1].from = 1
              /\ b[1].to = question_counts.screener
              /\ b[1].count = question_counts.screener
        /\ Len(b) >= 2 =>
              /\ 2 * b[2].count <= core
              /\ core < 2 * b[2].count + 2
        /\ Len(b) >= 3 =>
              /\ b[3].count = core - b[2].count
              /\ b[3].count - b[2].count \in {0, 1}
              /\ b[2].count + b[3].count = core
              /\ b[3].from = b[2].to + 1
        /\ Len(b) >= 4 => b[4].count = question_counts.demographics

C5_Witness ==
    LET b == CallsOf(BatchKinds)
    IN  /\ Len(b) = 4
        /\ question_counts.core_research % 2 = 1
        /\ b[3].count = b[2].count + 1
        /\ outcome = "done"


Planned == question_counts.total
CompletionCalls == CallsOf({"completion"})
ReplyAppended == Len(questionnaire') > Len(questionnaire)

\* C6 in every state: at most one completion request in a run; while it is
\* outstanding the questionnaire is short and the request is for the numbers
\* actual_count + 1 .. planned total; a finished run without one has a
\* realized count >= the planned total, and the count it reports is the
\* count of the questionnaire as it stands after the pass.
C6_State ==
    /\ Len(CompletionCalls) <= 1
    /\ pc = "completion" =>
          /\ Len(CompletionCalls) = 1
          /\ actual_count = CountQuestionLines(questionnaire)
          /\ actual_count < Planned
          /\ CompletionCalls[1] =
                Call("completion", Planned - actual_count, actual_count + 1, Planned)
    /\ outcome = "done" =>
          /\ pc = "idle"
          /\ actual_count = CountQuestionLines(questionnaire)
          /\ Len(CompletionCalls) = 0 => actual_count >= Planned
          /\ Len(CompletionCalls) = 1 => CompletionCalls[1].from <= Planned

\* C6 in every step: the step that appends the fourth batch issues the
\* completion request exactly when the realized count is below the planned
\* total, and otherwise finishes the run; the step that receives the
\* completion reply appends it, recounts, and finishes the run with no
\* further request, short or not.
C6_Step ==
    /\ (pc = "demographics" /\ ReplyAppended) =>
          LET actual == CountQuestionLines(questionnaire')
          IN  /\ actual >= Planned => (calls' = calls /\ outcome' = "done")
              /\ actual < Planned =>
                    /\ calls' = Append(calls, Call("completion", Planned - actual,
                                                   actual + 1, Planned))
                    /\ pc' = "completion"
    /\ (pc = "completion" /\ ReplyAppended) =>
          /\ IsPrefix(questionnaire \o <<BlankLine>>, questionnaire')
          /\ actual_count' = CountQuestionLines(questionnaire')
          /\ calls' = calls
          /\ outcome' = "done"
          /\ pc' = "idle"

\* C6: after the four batches, no supplementary request if the realized
\* count is >= the planned total; otherwise exactly one, for the range
\* actual_count + 1 .. planned total, whose output is appended and counted
\* once, with no further request even if the questionnaire is still short.
C6_OneCompletionPass == []C6_State /\ [][C6_Step]_vars

C6_Witness ==
    /\ outcome = "done"
    /\ Len(CompletionCalls) = 1
    /\ CompletionCalls[1].count = 3
    /\ actual_count = Planned - 1

RunOrder ==
    <<"brands", "research", "screener", "core_part1", "core_part2", "demographics",
      "completion">>

\* C7: in one run the questionnaire requests are issued in the order
\* screener, core part 1, core part 2, demographics, each once, then at most
\* one completion request; a request is outstanding exactly while the run
\* waits on it, so the next one is issued only in the step that appends the
\* reply to the previous one; a finished run has made the four batch
\* requests and no other questionnaire request but the completion pass.
C7_State ==
    /\ IsPrefix(KindsOf(calls), RunOrder)
    /\ IsPrefix(KindsOf(CallsOf(QuestionnaireKinds)),
                <<"screener", "core_part1", "core_part2", "demographics", "completion">>)
    /\ pc # "idle" => (calls # << >> /\ calls[Len(calls)].kind = pc)
    /\ outcome = "done" =>
          KindsOf(CallsOf(BatchKinds)) =
              <<"screener", "core_part1", "core_part2", "demographics">>

C7_Step ==
    calls' # calls =>
        \/ calls' = << >>
        \/ calls' = <<BrandCall>> /\ pc = "idle"
        \/ /\ Len(calls') = Len(calls) + 1
           /\ SubSeq(calls', 1, Len(calls)) = calls
           /\ pc = calls[Len(calls)].kind
           /\ pc' = calls'[Len(calls')].kind
           /\ calls'[Len(calls')].kind \in QuestionnaireKinds \ {"screener"} => ReplyAppended

\* C7: one request per batch, strictly in sequence, and at most one more for
\* the completion pass (C7_State in every state, C7_Step in every step).
C7_SequentialCalls == []C7_State /\ [][C7_Step]_vars

C7_Witness ==
    /\ outcome = "done"
    /\ KindsOf(calls) = RunOrder

\* C8: when a questionnaire request fails, the run ends there: no request is
\* outstanding or issued afterwards in that run, the failure is reported,
\* and the step leaves questionnaire_text and questionnaire_generated as
\* they were before the run.
C8_State ==
    outcome = "failed" =>
        /\ pc = "idle"
        /\ messages # << >>
        /\ messages[Len(messages)] = Msg("error_failed", 0, 0)
        /\ ~(\E i \in DOMAIN messages :
                messages[i].kind \in {"success_complete", "success_partial"})

C8_Step ==
    /\ outcome' = "failed" =>
          /\ UNCHANGED <<questionnaire_text, questionnaire_generated>>
          /\ calls' = calls
    /\ pc # "idle" => UNCHANGED <<questionnaire_text, questionnaire_generated>>
          \/ outcome' = "done"

\* C8: a failed questionnaire request ends the run, is reported, and stores
\* no questionnaire (C8_State in every state, C8_Step in every step).
C8_FailureStopsRun == []C8_State /\ [][C8_Step]_vars

C8_Witness ==
    /\ outcome = "failed"
    /\ calls[Len(calls)].kind = "core_part2"
    /\ questionnaire_generated
    /\ CountQuestionLines(questionnaire_text) = calculate_question_count(MinLoi).total
    /\ survey_data.survey_loi = DefaultLoi

\* C9: whenever a finished run stores a questionnaire with fewer questions
\* than the planned total, its last report is the final count report with
\* exactly the realized count and the planned total, and the generation
\* summary carries the same two numbers.
C9_ShortfallReported ==
    (outcome = "done" /\ CountQuestionLines(questionnaire_text) < Planned) =>
        LET realized == CountQuestionLines(questionnaire_text)
        IN  /\ messages[Len(messages)] = Msg("success_partial", realized, Planned)
            /\ \E i \in DOMAIN messages :
                  messages[i] = Msg("info_summary", realized, Planned)

C9_Witness ==
    /\ outcome = "done"
    /\ Planned = calculate_question_count(DefaultLoi).total
    /\ CountQuestionLines(questionnaire_text) = Planned - 1
    /\ messages[Len(messages)] = Msg("success_partial", Planned - 1, Planned)

\* C10: a step in which the reply to the last request of a run is received
\* never takes the failure path, however short the questionnaire is: it
\* formats and stores the questionnaire and sets questionnaire_generated;
\* and the only reply that does not end the run is a short fourth batch.
C10_Step ==
    (pc \in {"demographics", "completion"} /\ ReplyAppended) =>
        /\ outcome' # "failed"
        /\ pc' = "idle" =>
              /\ outcome' = "done"
              /\ questionnaire_generated'
              /\ questionnaire_text' = format_questionnaire_with_logic(questionnaire')
              /\ ~(\E i \in DOMAIN messages' : messages'[i].kind = "error_failed")
        /\ pc' # "idle" => (pc = "demographics" /\ pc' = "completion")

\* C10: a validation shortfall never aborts the run: the best-effort
\* questionnaire is formatted and stored (C10_Step in every step).
C10_ShortfallDoesNotAbort == [][C10_Step]_vars

C10_Witness ==
    /\ outcome = "done"
    /\ questionnaire_generated
    /\ final_count < Planned
    /\ questionnaire_text = format_questionnaire_with_logic(questionnaire)
    /\ questionnaire_text # questionnaire

\* The numbers of the question lines of a text, in the order of the lines.
QuestionNumbers(text) ==
    LET qs == SelectSeq(text, StartsWithQ)
    IN  [i \in DOMAIN qs |-> qs[i].num]

NumberedFromOne(ns) ==
    /\ \A i, j \in DOMAIN ns : i # j => ns[i] # ns[j]
    /\ {ns[i] : i \in DOMAIN ns} = 1..Len(ns)

LastReport == messages[Len(messages)]

\* C11: whatever the collaborator returned, the question numbers of the
\* questionnaire a finished run stored are the consecutive integers from 1,
\* none twice, or else the run did not report the questionnaire as complete.
C11_ConsecutiveNumbers ==
    outcome = "done" =>
        \/ NumberedFromOne(QuestionNumbers(questionnaire_text))
        \/ LastReport.kind # "success_complete"

\* The markers of the assembled questionnaire.
TerminationMarkers(text) == Cardinality({i \in DOMAIN text : text[i].kind = "termination"})
FraudMarkers(text) == Cardinality({i \in DOMAIN text : text[i].kind = "fraud"})

\* The reports a run makes of the category, the brands and the question count.
CountReports ==
    {"info_category", "success_brand_research", "error_brand_research",
     "warning_incomplete", "info_summary", "success_complete", "success_partial"}

\* C12: a finished run whose questionnaire has no termination marker although
\* screener questions were planned, or has no fraud/attention-check marker,
\* has reported that: one of its reports is about something other than the
\* category, the brands and the question count.
C12_MarkersReported ==
    (/\ outcome = "done"
     /\ \/ question_counts.screener > 0 /\ TerminationMarkers(questionnaire) = 0
        \/ FraudMarkers(questionnaire) = 0) =>
        \E i \in DOMAIN messages : messages[i].kind \notin CountReports

\* The text the classifier of the run read, and what it returned.
ClassifiedText ==
    lower(survey_data.survey_objective) \o <<Space>> \o lower(survey_data.target_audience)
Classified == outcome = "running"
CategoryNames == {category_keywords[c].category : c \in DOMAIN category_keywords}

\* The keywords that occur in the text, each with its category.
Occurring(text) ==
    UNION {{<<c, k>> : k \in {n \in DOMAIN category_keywords[c].keywords :
                                Contains(text, category_keywords[c].keywords[n])}} :
           c \in DOMAIN category_keywords}

\* C13: the classifier returns ('general', 0) exactly when no keyword of any
\* category occurs in the lower-cased objective + audience text; when exactly
\* one keyword occurs, it returns the category of that keyword with
\* confidence 1, the weight of one keyword; and the category is 'general'
\* if and only if the confidence is 0.
C13_GeneralIffNoKeyword ==
    Classified =>
        /\ (detected_category = "general" /\ confidence = 0)
               <=> Occurring(ClassifiedText) = {}
        /\ \A ck \in Occurring(ClassifiedText) :
               Occurring(ClassifiedText) = {ck} =>
                   /\ detected_category = category_keywords[ck[1]].category
                   /\ confidence = 1
        /\ detected_category = "general" <=> confidence = 0
        /\ detected_category \in CategoryNames \cup {"general"}

C13_Witness ==
    /\ pc = "brands"
    /\ Cardinality(Occurring(ClassifiedText)) = 1
    /\ survey_objective # lower(survey_objective)
    /\ detected_category = "automotive"
    /\ confidence = 1

\* The score of the i-th category for the text, counted over Occurring.
ScoreOf(i, text) == Cardinality({ck \in Occurring(text) : ck[1] = i})

\* C14: when some keyword occurs, the classifier returns a category whose
\* score no other category exceeds, with that score as the confidence, and
\* every category declared before it has a strictly lower score.
C14_HighestScoreFirstDeclared ==
    (Classified /\ Occurring(ClassifiedText) # {}) =>
        \E i \in DOMAIN category_keywords :
            /\ detected_category = category_keywords[i].category
            /\ confidence = ScoreOf(i, ClassifiedText)
            /\ \A j \in DOMAIN category_keywords :
                   ScoreOf(j, ClassifiedText) <= ScoreOf(i, ClassifiedText)
            /\ \A j \in 1..(i - 1) : ScoreOf(j, ClassifiedText) < ScoreOf(i, ClassifiedText)

C14_Witness ==
    /\ pc = "brands"
    /\ detected_category = "food_beverage"
    /\ confidence = 1
    /\ ScoreOf(4, ClassifiedText) = 1
    /\ category_keywords[4].category = "technology"

\* The brand list of the run is resolved: the lookup has come back.
Resolved == outcome = "running" /\ pc = "research"
Distinct(names) == \A i, j \in DOMAIN names : i # j => names[i] # names[j]

\* C15: whatever the lookup came back with, for every category and market
\* the resolved brand list has between 1 and 20 names and no name twice.
C15_ResolutionNonEmptyDistinct ==
    Resolved =>
        /\ Len(brand_list) >= 1
        /\ Len(brand_list) <= 20
        /\ Distinct(brand_list)

\* The run took its brand list from the content of the lookup's reply.
FromLookup == Resolved /\ ~brand_response.raised /\ Len(brands_of(brand_response.lines)) >= 5

\* C16: a brand list taken from the reply of the lookup has entries of 3 to
\* 49 characters only, no entry twice, and is the first entries, at most 20
\* and in their order, of the lines that survive the cleaning.
C16_CleanedDistinctCapped ==
    FromLookup =>
        /\ \A i \in DOMAIN brand_list : Len(brand_list[i]) >= 3 /\ Len(brand_list[i]) <= 49
        /\ Distinct(brand_list)
        /\ Len(brand_list) <= 20
        /\ IsPrefix(brand_list, brands_of(brand_response.lines))

\* The static fallback list of the run's category and market.
RunFallback == get_fallback_brands(detected_category, survey_data.market_country)

\* C17 as stated: the fallback list when the lookup raised or fewer than 5
\* entries survive the cleaning, otherwise the whole cleaned list of the
\* reply.
C17_FallbackOrCleanedList ==
    Resolved =>
        IF brand_response.raised \/ Len(brands_of(brand_response.lines)) < 5
        THEN brand_list = RunFallback
        ELSE brand_list = brands_of(brand_response.lines)

\* C17: the fallback list when the lookup raised or fewer than 5 entries
\* survive the cleaning, otherwise the first 15 entries of the cleaned list
\* of the reply (all of them when there are at most 15).
C17_FallbackOrFirstFifteen ==
    Resolved =>
        IF brand_response.raised \/ Len(brands_of(brand_response.lines)) < 5
        THEN brand_list = RunFallback
        ELSE /\ IsPrefix(brand_list, brands_of(brand_response.lines))
             /\ Len(brands_of(brand_response.lines)) <= 15 =>
                    brand_list = brands_of(brand_response.lines)
             /\ Len(brands_of(brand_response.lines)) > 15 => Len(brand_list) = 15

C17_Witness ==
    /\ Resolved
    /\ ~brand_response.raised
    /\ Len(brands_of(brand_response.lines)) = 16
    /\ Len(brand_list) = 15
    /\ brand_list # RunFallback

\* The market texts that are keys of the fallback table.
IndiaKey == <<"I", "n", "d", "i", "a">>
\* The run resolved its brand list through the static fallback.
FellBack == Resolved /\ brand_response.raised

\* C18 as stated: for a category of the table, its entry for the market when
\* the market is a key of the table and its 'global' entry otherwise; the
\* placeholder list for any other category.
C18_ExactMarketKey ==
    FellBack =>
        IF detected_category \in DOMAIN fallback_brands
        THEN IF survey_data.market_country = IndiaKey
             THEN brand_list = fallback_brands[detected_category].India
             ELSE brand_list = fallback_brands[detected_category].global
        ELSE brand_list = placeholder_brands

\* The market names India: 'india' is part of its lower-cased text.
NamesIndia(market) ==
    \E i \in DOMAIN market :
        lower(market)[i] = "i" /\ i + 4 <= Len(market)
        /\ <<lower(market)[i + 1], lower(market)[i + 2], lower(market)[i + 3],
              lower(market)[i + 4]>> = <<"n", "d", "i", "a">>

\* C18: for a category of the table, its 'India' entry when the market text
\* contains 'india' in any letter case and its 'global' entry otherwise; the
\* placeholder list Brand A..Brand E for any other category, 'general'
\* among them.
C18_FallbackChain ==
    FellBack =>
        /\ detected_category \in {"cosmetics", "automotive", "technology", "food_beverage"} =>
              IF NamesIndia(survey_data.market_country)
              THEN brand_list = fallback_brands[detected_category].India
              ELSE brand_list = fallback_brands[detected_category].global
        /\ detected_category \notin {"cosmetics", "automotive", "technology", "food_beverage"} =>
              /\ Len(brand_list) = 5
              /\ \A i \in 1..5 :
                    brand_list[i] = <<"B", "r", "a", "n", "d", " ">>
                                       \o <<<<"A", "B", "C", "D", "E">>[i]>>

C18_Witness ==
    /\ FellBack
    /\ detected_category = "cosmetics"
    /\ survey_data.market_country # IndiaKey
    /\ NamesIndia(survey_data.market_country)
    /\ Len(brand_list) = 15

\* The prompts of the questionnaire requests, in the order they were sent.
QuestionnairePrompts == SelectSeq(prompts, LAMBDA p : p.kind \in QuestionnaireKinds)
InRun == outcome \in {"running", "done", "failed"}

\* C19 in every state: a run makes one brand lookup, its first request; each
\* questionnaire prompt is sent after it; the screener, both core parts and
\* the completion pass carry the resolved list itself, and every top-N
\* brand selection of a prompt is a prefix of that list.
C19_State ==
    /\ Len(prompts) = Len(calls)
    /\ \A i \in DOMAIN prompts : prompts[i].kind = calls[i].kind
    /\ InRun =>
          /\ Len(CallsOf({"brands"})) = 1
          /\ calls[1].kind = "brands"
    /\ pc = "brands" => brand_list = NoBrands /\ QuestionnairePrompts = << >>
    /\ \A i \in DOMAIN QuestionnairePrompts :
          LET p == QuestionnairePrompts[i]
          IN  /\ p.kind # "demographics" => p.brand_list_text = brand_list
              /\ p.kind = "demographics" => p.brand_list_text = NoBrands
              /\ IsPrefix(p.top_brands, brand_list)
              /\ \A k \in DOMAIN p.listed : IsPrefix(p.listed[k], brand_list)
              /\ p.kind \in {"screener", "core_part1", "core_part2"} =>
                    p.top_brands # NoBrands

\* C19 in every step: the brand list is assigned by the step that receives
\* the reply of the lookup, and by no later step of the run.
C19_Step ==
    /\ pc \notin {"idle", "brands"} => brand_list' = brand_list
    /\ pc = "brands" => brand_list' # NoBrands
    /\ pc = "idle" => brand_list' = NoBrands

\* C19: the brand list of a run is resolved once, before the first batch,
\* and every batch and the completion pass use that list or a prefix of it
\* (C19_State in every state, C19_Step in every step).
C19_BrandListResolvedOnce == []C19_State /\ [][C19_Step]_vars

C19_Witness ==
    /\ outcome = "done"
    /\ Len(QuestionnairePrompts) = 5
    /\ QuestionnairePrompts[5].kind = "completion"
    /\ QuestionnairePrompts[5].brand_list_text = PlainReply.lines
    /\ QuestionnairePrompts[3].top_brands = brand_list
    /\ brand_list # get_fallback_brands(detected_category, survey_data.market_country)

\* C20 in every state: the category of a run is the one the classifier
\* returns for the objective and audience of the run, it is stored with the
\* survey data, and every prompt sent in the run carries that label.
C20_State ==
    InRun =>
        /\ detected_category =
               detect_survey_category(survey_data.survey_objective,
                                      survey_data.target_audience).category
        /\ survey_data.detected_category = detected_category
        /\ \A i \in DOMAIN prompts : prompts[i].category = detected_category

\* C20 in every step: the category is assigned by the click that starts the
\* run and by no later step of the run.
C20_Step == pc # "idle" => UNCHANGED <<detected_category, confidence>>

\* C20: the category of a run is detected once and every batch prompt and
\* the completion prompt carry that label (C20_State in every state,
\* C20_Step in every step).
C20_OneCategoryPerRun == []C20_State /\ [][C20_Step]_vars

C20_Witness ==
    /\ outcome = "done"
    /\ Len(QuestionnairePrompts) = 5
    /\ \A i \in DOMAIN prompts : prompts[i].category = "automotive"
    /\ KindsOf(prompts) = RunOrder

\* C21 in every state: a run stopped for the missing key has made no
\* request, has classified nothing, resolved no brands and produced no
\* text; its only report is the key error.
C21_State ==
    (outcome = "stopped" /\ api_key = NoText) =>
        /\ pc = "idle"
        /\ calls = << >>
        /\ prompts = << >>
        /\ questionnaire = EmptyText
        /\ brand_list = NoBrands
        /\ detected_category = ""
        /\ messages = <<Msg("error_api_key", 0, 0)>>

\* C21 in every step: while the key is missing no step starts a run or makes
\* a request, and the click that is stopped leaves survey_data_stored,
\* questionnaire_text and questionnaire_generated as they were.
C21_Step ==
    (api_key = NoText /\ api_key' = NoText) =>
        /\ outcome' \in {"none", "stopped"}
        /\ pc' = "idle"
        /\ calls' = << >>
        /\ outcome' = "stopped" =>
              UNCHANGED <<survey_data_stored, questionnaire_text, questionnaire_generated>>

\* C21: with the API key missing, "Generate" stops at once: no collaborator
\* is invoked, nothing is produced, the stored state is unchanged (C21_State
\* in every state, C21_Step in every step).
C21_MissingKeyStopsRun == []C21_State /\ [][C21_Step]_vars

C21_Witness ==
    /\ outcome = "stopped"
    /\ api_key = NoText
    /\ survey_objective # NoText /\ target_audience # NoText
    /\ questionnaire_generated
    /\ survey_data_stored.survey_loi # survey_loi

\* C22 in every state: a run stopped with the key present was stopped for
\* an empty objective or audience; it has made no request, classified
\* nothing and resolved no brands; its only report is the input error.
C22_State ==
    (outcome = "stopped" /\ api_key # NoText) =>
        /\ survey_objective = NoText \/ target_audience = NoText
        /\ pc = "idle"
        /\ calls = << >>
        /\ prompts = << >>
        /\ detected_category = ""
        /\ confidence = 0
        /\ brand_list = NoBrands
        /\ questionnaire = EmptyText
        /\ messages = <<Msg("error_inputs", 0, 0)>>

\* C22 in every step: a step that leaves the form with an empty objective or
\* audience starts no run, makes no request and classifies nothing, and the
\* click that is stopped leaves the stored state as it was.
C22_Step ==
    (pc = "idle" /\ (survey_objective' = NoText \/ target_audience' = NoText)) =>
        /\ outcome' \in {"none", "stopped"}
        /\ pc' = "idle"
        /\ calls' = << >>
        /\ detected_category' = ""
        /\ outcome' = "stopped" =>
              UNCHANGED <<survey_data_stored, questionnaire_text, questionnaire_generated>>

\* C22: with an empty objective or audience, "Generate" stops before any
\* generation work: no classification, no brand lookup, no text-generation
\* request, stored state unchanged (C22_State in every state, C22_Step in
\* every step).
C22_EmptyInputStopsRun == []C22_State /\ [][C22_Step]_vars

C22_Witness ==
    /\ outcome = "stopped"
    /\ api_key # NoText
    /\ survey_objective # NoText
    /\ target_audience = NoText
    /\ questionnaire_generated
    /\ survey_data_stored.target_audience # NoText

\* C23 as stated: for every valid LOI, core_research = round(loi * 2.5),
\* screener = max(8, round(loi * 0.4)), demographics = max(8, round(loi * 0.4)).
C23_RoundedPolicy ==
    /\ q_counts.core_research = python_round(survey_loi * 5, 2)
    /\ q_counts.screener = Max(SectionFloor, python_round(survey_loi * 4, 10))
    /\ q_counts.demographics = Max(SectionFloor, python_round(survey_loi * 4, 10))

\* The budget b is the truncating policy for loi: core_research is the
\* integer part of 2.5 x loi, and screener and demographics are the larger of
\* 8 and the integer part of 0.4 x loi.
TruncatedPolicy(b, loi) ==
    /\ 2 * b.core_research <= 5 * loi
    /\ 5 * loi < 2 * b.core_research + 2
    /\ \E part \in 0..loi :
          /\ 10 * part <= 4 * loi
          /\ 4 * loi < 10 * part + 10
          /\ b.screener = Max(8, part)
          /\ b.demographics = Max(8, part)

\* C23: for every valid integer LOI, the budget displayed for the LOI of the
\* form and the budget a run plans with have core_research = int(loi * 2.5)
\* and screener = demographics = max(8, int(loi * 0.4)), int() dropping the
\* fraction.
C23_TruncatedPolicy ==
    /\ survey_loi \in ValidLoi
    /\ TruncatedPolicy(q_counts, survey_loi)
    /\ InRun => TruncatedPolicy(question_counts, survey_data.survey_loi)

C23_Witness ==
    /\ survey_loi = 27
    /\ pc = "screener"
    /\ question_counts = [screener |-> 10, core_research |-> 67, demographics |-> 10,
                           total |-> 87]
    /\ python_round(survey_loi * 5, 2) = 68
    /\ python_round(survey_loi * 4, 10) = 11

\* Scenario A: a run with a LOI of 20 whose objective contains 'automotive'
\* and 'car'.
ScenarioA ==
    /\ InRun
    /\ survey_data.survey_loi = DefaultLoi
    /\ Contains(lower(survey_data.survey_objective),
                <<"a", "u", "t", "o", "m", "o", "t", "i", "v", "e">>)
    /\ Contains(lower(survey_data.survey_objective), <<"c", "a", "r">>)

\* C24 as stated: in scenario A the classification is automotive with a
\* confidence of at least 2 and the budget is 30 core, 6 screener and 5
\* demographics questions, 41 in total.
C24_ScenarioBudget41 ==
    ScenarioA =>
        /\ detected_category = "automotive"
        /\ confidence >= 2
        /\ question_counts = [screener |-> 6, core_research |-> 30, demographics |-> 5,
                               total |-> 41]

\* C24: in scenario A the classification is automotive with a confidence of
\* at least 2 and the budget is 50 core, 8 screener and 8 demographics
\* questions, 66 in total.
C24_ScenarioBudget66 ==
    ScenarioA =>
        /\ detected_category = "automotive"
        /\ confidence >= 2
        /\ question_counts = [screener |-> 8, core_research |-> 50, demographics |-> 8,
                               total |-> 66]
        /\ q_counts = question_counts

C24_Witness ==
    /\ ScenarioA
    /\ outcome = "done"
    /\ confidence = 3
    /\ final_count = 66
    /\ KindsOf(CallsOf(BatchKinds)) = <<"screener", "core_part1", "core_part2", "demographics">>

\* Scenario B: a run with a LOI of 15 whose objective and audience contain
\* no keyword of any category.
ScenarioB ==
    /\ InRun
    /\ survey_data.survey_loi = 15
    /\ Occurring(ClassifiedText) = {}

GenericBrands ==
    [i \in 1..5 |-> <<"B", "r", "a", "n", "d", " ">> \o <<<<"A", "B", "C", "D", "E">>[i]>>]

\* The brand-carrying prompts of the run so far all carry the list `names`.
BatchesUse(names) ==
    /\ pc # "brands" => brand_list = names
    /\ \A i \in DOMAIN QuestionnairePrompts :
          QuestionnairePrompts[i].kind # "demographics" =>
              QuestionnairePrompts[i].brand_list_text = names

\* C25 as stated: in scenario B the classification is (general, 0) and the
\* brand list the batches use is Brand A..Brand E.
C25_ScenarioPlaceholders ==
    ScenarioB =>
        /\ detected_category = "general"
        /\ confidence = 0
        /\ BatchesUse(GenericBrands)

\* C25: in scenario B the classification is (general, 0); the brand list the
\* batches use is Brand A..Brand E when the brand lookup raised or found
\* fewer than 5 brands, and otherwise the first 15 brands the lookup found.
C25_ScenarioLookupOrPlaceholders ==
    ScenarioB =>
        /\ detected_category = "general"
        /\ confidence = 0
        /\ pc # "brands" =>
              IF brand_response.raised \/ Len(brands_of(brand_response.lines)) < 5
              THEN BatchesUse(GenericBrands)
              ELSE BatchesUse(Take(brands_of(brand_response.lines), 15))

C25_Witness ==
    /\ ScenarioB
    /\ outcome = "done"
    /\ brand_response.raised
    /\ Len(QuestionnairePrompts) >= 4
    /\ QuestionnairePrompts[1].brand_list_text = GenericBrands
    /\ QuestionnairePrompts[3].top_brands = GenericBrands

\* The script run has reached the results section with a questionnaire to
\* show: the questionnaire is displayed and offered for download, the Word
\* and Excel files being built from survey_data_stored.  (A run stopped by
\* st.stop() does not reach the section.)
Displayed ==
    /\ pc = "idle"
    /\ outcome \in {"none", "done", "failed"}
    /\ questionnaire_generated
    /\ questionnaire_text # EmptyText

\* C26: whenever a questionnaire is displayed or offered for export,
\* survey_data_stored is the survey data of the run that stored that
\* questionnaire.
C26_StoredDataOfSameRun == Displayed => survey_data_stored = generated_from

\* The numbers the pending completion request asks for.
CompletionRange == (actual_count + 1)..question_counts.total

\* C27: the numbers the completion pass asks for, actual_count + 1 through
\* the planned total, are none of them the number of a question the batches
\* already produced (each batch having numbered inside its own range).
C27_CompletionRangeUnused ==
    pc = "completion" =>
        \A i \in DOMAIN questionnaire :
            StartsWithQ(questionnaire[i]) => questionnaire[i].num \notin CompletionRange

\* create_structured_excel_output: the rows of the Questions_Analysis sheet,
\* one for each line that starts a record (line.startswith('Q') and ':' in
\* line), in the order of the text.
StartsRecord(l) == StartsWithQ(l) /\ HasColon(l)
questions_data(text) == SelectSeq(text, StartsRecord)

\* C28: every line the count validation takes for a question is a line the
\* exporter starts a record at, so the export of a finished run has as many
\* per-question records as the realized count the run reported.
C28_ExportedRecordsMatchCount ==
    (outcome = "done" /\ questionnaire_generated) =>
        /\ \A i \in DOMAIN questionnaire_text :
              IsQuestionLine(questionnaire_text[i]) => StartsRecord(questionnaire_text[i])
        /\ Len(questions_data(questionnaire_text)) = final_count

\* The report on the brand research of the run, shown once the list is
\* resolved.
BrandResearchReport == messages[Len(messages)]

\* C29: 'Dynamic Brand Research Successful' is shown exactly when the brand
\* list came from the external lookup, and 'Brand Research Failed: Using
\* fallback brands' exactly when the static fallback was used.
C29_ReportNamesSource ==
    Resolved =>
        /\ BrandResearchReport.kind = "success_brand_research" <=> FromLookup
        /\ BrandResearchReport.kind = "error_brand_research" <=> ~FromLookup

====
